---- MODULE Spec2Model ----
(***************************************************************************)
(* Model of src/app.py, the Streamlit research agent: the session state    *)
(* (st.session_state), the sidebar load handlers, the chat handler with    *)
(* its navigation command check, and the helpers they call.                *)
(*                                                                         *)
(* Python strings that the code searches or compares character by          *)
(* character (completions, URLs, hrefs, prompts, notices) are sequences    *)
(* of one-character strings.  A document text is [src, len]: the prefix    *)
(* of length len of the text extracted from source src; only slicing is    *)
(* ever applied to it.  A Python optional is a set: {} is None, {v} is v.  *)
(***************************************************************************)
EXTENDS Integers, Sequences, FiniteSets, TLC

VARIABLES
    session_state,  \* st.session_state: context_text, messages, found_files, found_links, current_url
    pc,             \* "idle" between script runs, "awaiting" while ollama.chat is running
    api_messages,   \* the turns of the running script's ollama.chat call, <<>> before it
    ai_reply,       \* the completion the running script received, <<>> before it
    http_requests,  \* the URLs the last script run passed to requests.get
    ui,             \* the last status element drawn: its kind and the line that draws it
    outcome,        \* the branch the last script run ended in
    prior,          \* st.session_state as the last script run found it
    last_load,      \* what the last successful load returned, with its source; {} before it
    extracted,      \* the text and anchors the last successful load extracted, before the slice
    engine_calls    \* the number of ollama.chat calls the last script run made

vars == <<session_state, pc, api_messages, ai_reply, http_requests, ui, outcome, prior,
         last_load, extracted, engine_calls>>

-----------------------------------------------------------------------------
(* Bounds and program constants *)

\* longest stored history the model explores
MaxTurns == 4

\* text[:100000]
CharBudget == 100000

\* found_links[:50]
LinkCap == 50

-----------------------------------------------------------------------------
(* Python string primitives *)

Min(S) == CHOOSE x \in S : \A y \in S : x <= y

\* s.startswith(p)
StartsWith(s, p) == Len(p) <= Len(s) /\ SubSeq(s, 1, Len(p)) = p

\* s.endswith(p)
EndsWith(s, p) == Len(p) <= Len(s) /\ SubSeq(s, Len(s) - Len(p) + 1, Len(s)) = p

\* p in s
Contains(s, p) == \E i \in 0..(Len(s) - Len(p)) : SubSeq(s, i + 1, i + Len(p)) = p

UpperToLower ==
    [c \in {"A","B","C","D","E","F","G","H","I","J","K","L","M","N","O","P","Q","R","S",
            "T","U","V","W","X","Y","Z"} |->
        CASE c = "A" -> "a" [] c = "B" -> "b" [] c = "C" -> "c" [] c = "D" -> "d"
          [] c = "E" -> "e" [] c = "F" -> "f" [] c = "G" -> "g" [] c = "H" -> "h"
          [] c = "I" -> "i" [] c = "J" -> "j" [] c = "K" -> "k" [] c = "L" -> "l"
          [] c = "M" -> "m" [] c = "N" -> "n" [] c = "O" -> "o" [] c = "P" -> "p"
          [] c = "Q" -> "q" [] c = "R" -> "r" [] c = "S" -> "s" [] c = "T" -> "t"
          [] c = "U" -> "u" [] c = "V" -> "v" [] c = "W" -> "w" [] c = "X" -> "x"
          [] c = "Y" -> "y" [] c = "Z" -> "z"]

\* s.lower()
Lower(s) == [i \in 1..Len(s) |-> IF s[i] \in DOMAIN UpperToLower THEN UpperToLower[s[i]] ELSE s[i]]

\* truthiness of an optional string: None and "" are falsy
Truthy(opt) == opt # {} /\ opt # {<<>>}

-----------------------------------------------------------------------------
(* Document texts *)

EmptyText == [src |-> "", len |-> 0]

\* the slice taken one character too long
Slice_plus_one(text, n) ==
    IF text.len = 0 THEN EmptyText
    ELSE [src |-> text.src, len |-> IF text.len <= n + 1 THEN text.len ELSE n + 1]

\* text[:n]
Slice(text, n) ==
    IF text.len = 0 \/ n = 0 THEN EmptyText
    ELSE [src |-> text.src, len |-> IF text.len <= n THEN text.len ELSE n]

-----------------------------------------------------------------------------
(* String literals of the program *)

\* { "action": "navigate"
MarkerSpaced ==
    <<"{"," ","\"","a","c","t","i","o","n","\"",":"," ","\"","n","a","v","i","g","a","t",
      "e","\"">>

\* {"action": "navigate"
MarkerTight ==
    <<"{","\"","a","c","t","i","o","n","\"",":"," ","\"","n","a","v","i","g","a","t","e",
      "\"">>

\* "url":
UrlKey ==
    <<"\"","u","r","l","\"",":">>

\* the prefix of the navigation note; its first character, the check-mark
\* glyph U+2705, is written "U+2705"
NoticePrefix ==
    <<"U+2705"," ","*","*","N","a","v","i","g","a","t","i","o","n"," ","S","u","c","c","e","s","s","f",
      "u","l","!","*","*"," ","I"," ","h","a","v","e"," ","l","o","a","d","e","d"," ","t",
      "h","e"," ","n","e","w"," ","p","a","g","e",":"," ">>

\* PDF Upload
PdfUpload ==
    <<"P","D","F"," ","U","p","l","o","a","d">>

\* [No Text]
NoText ==
    <<"[","N","o"," ","T","e","x","t","]">>

\* javascript:
ScriptScheme ==
    <<"j","a","v","a","s","c","r","i","p","t",":">>

\* the six suffixes of target_extensions
target_extensions ==
    { <<".","p","d","f">>, <<".","t","x","t">>, <<".","c","s","v">>, <<".","m","d">>,
      <<".","j","s","o","n">>, <<".","d","o","c","x">> }

\* characters matched by \s
WhiteSpace == {" ", "\t", "\n", "\r", "\f"}

-----------------------------------------------------------------------------
(* fetch_webpage_data *)

\* urljoin(url, href), for the two shapes of href the pages below use: an
\* absolute http URL is returned as it is, a plain relative name replaces
\* the part of the base after its last "/"
urljoin(url, href) ==
    IF Contains(href, <<":","/","/">>) THEN href
    ELSE LET slashes == {i \in 1..Len(url) : url[i] = "/"}
             last == CHOOSE i \in slashes : \A j \in slashes : j <= i
         IN  SubSeq(url, 1, last) \o href

\* the body of the loop with a link left out when its target is already listed
classify_one_dedup(url, link, links, files) ==
    LET href == link.href
        text == IF link.text # <<>> THEN link.text ELSE NoText
        full_url == urljoin(url, href)
        link_data == [text |-> text, url |-> full_url]
    IN  IF href = <<>> \/ StartsWith(href, <<"#">>) \/ StartsWith(href, ScriptScheme)
        THEN [links |-> links, files |-> files]
        ELSE IF \E i \in 1..Len(links) : links[i].url = full_url
        THEN [links |-> links, files |-> files]
        ELSE IF \E lowered \in {Lower(full_url)} :
                   \E ext \in target_extensions : EndsWith(lowered, ext)
             THEN [links |-> links, files |-> Append(files, link_data)]
             ELSE [links |-> Append(links, link_data), files |-> files]

\* the body of the loop over soup.find_all('a', href=True), for one anchor:
\* the two lists after it
classify_one(url, link, links, files) ==
    LET href == link.href
        text == IF link.text # <<>> THEN link.text ELSE NoText
        full_url == urljoin(url, href)
        link_data == [text |-> text, url |-> full_url]
    IN  IF href = <<>> \/ StartsWith(href, <<"#">>) \/ StartsWith(href, ScriptScheme)
        THEN [links |-> links, files |-> files]
        ELSE IF \E lowered \in {Lower(full_url)} :
                   \E ext \in target_extensions : EndsWith(lowered, ext)
             THEN [links |-> links, files |-> Append(files, link_data)]
             ELSE [links |-> Append(links, link_data), files |-> files]

\* the loop, in document order: the lists after the first anchor are the
\* lists the rest of the loop starts from
RECURSIVE classify(_, _, _, _)
classify(url, anchors, links, files) ==
    IF anchors = <<>> THEN [links |-> links, files |-> files]
    ELSE CHOOSE result \in { classify(url, Tail(anchors), step.links, step.files) :
                               step \in {classify_one(url, Head(anchors), links, files)} } : TRUE

\* response: what requests.get and the parse produce for url.  ok = FALSE is
\* any exception raised inside the try block, err being str(e)
fetch_webpage_data(url, response) ==
    IF ~response.ok THEN [error |-> {response.err}]
    ELSE LET c == classify(url, response.anchors, <<>>, <<>>)
         IN  [text |-> Slice(response.text, CharBudget),
              links |-> c.links,
              files |-> c.files,
              error |-> {}]

-----------------------------------------------------------------------------
(* extract_pdf_text *)

\* text after the loop over pdf.pages: each page adds (extract_text() or "")
\* and one "\n"
RECURSIVE pages_len(_)
pages_len(pages) ==
    IF pages = <<>> THEN 0
    ELSE (IF Head(pages) = {} THEN 0 ELSE Min(Head(pages))) + 1 + pages_len(Tail(pages))

\* the local text when the loop ends
pdf_text(uploaded_file) ==
    IF pages_len(uploaded_file.pages) = 0 THEN EmptyText
    ELSE [src |-> uploaded_file.name, len |-> pages_len(uploaded_file.pages)]

\* uploaded_file: ok = FALSE is any exception raised by pdfplumber
extract_pdf_text(uploaded_file) ==
    IF ~uploaded_file.ok THEN [error |-> {uploaded_file.err}]
    ELSE [text |-> Slice(pdf_text(uploaded_file), CharBudget), error |-> {}]

-----------------------------------------------------------------------------
(* Session state *)

\* the five keys set at start-up
InitialSession ==
    [context_text |-> EmptyText,
     messages |-> <<>>,
     found_files |-> <<>>,
     found_links |-> <<>>,
     current_url |-> <<>>]

\* the loaded resource: every key but the history
Resource(ss) ==
    [context_text |-> ss.context_text,
     found_files |-> ss.found_files,
     found_links |-> ss.found_links,
     current_url |-> ss.current_url]

Turn(role, content) == [role |-> role, content |-> content]

\* the note load_new_url adds to the history
NavigationNotice(target_url) == Turn("assistant", NoticePrefix \o target_url)

\* load_new_url with current_url assigned before the error check
load_new_url_url_first(ss, target_url, data) ==
    IF Truthy(data.error) \/ "text" \notin DOMAIN data
    THEN [ss |-> [ss EXCEPT !.current_url = target_url],
          ret |-> IF Truthy(data.error) THEN "False" ELSE "KeyError"]
    ELSE [ss |-> [context_text |-> data.text,
                  found_files |-> data.files,
                  found_links |-> data.links,
                  current_url |-> target_url,
                  messages |-> Append(ss.messages, NavigationNotice(target_url))],
          ret |-> "True"]

\* load_new_url with the history restarted at the note
load_new_url_clears(ss, target_url, data) ==
    IF Truthy(data.error) THEN [ss |-> ss, ret |-> "False"]
    ELSE IF "text" \notin DOMAIN data THEN [ss |-> ss, ret |-> "KeyError"]
    ELSE [ss |-> [context_text |-> data.text,
                  found_files |-> data.files,
                  found_links |-> data.links,
                  current_url |-> target_url,
                  messages |-> <<NavigationNotice(target_url)>>],
          ret |-> "True"]

\* load_new_url, given what fetch_webpage_data returned.  ret is the value
\* returned, or "KeyError" when data["text"] is read from a dict without it
load_new_url(ss, target_url, data) ==
    IF Truthy(data.error) THEN [ss |-> ss, ret |-> "False"]
    ELSE IF "text" \notin DOMAIN data THEN [ss |-> ss, ret |-> "KeyError"]
    ELSE [ss |-> [context_text |-> data.text,
                  found_files |-> data.files,
                  found_links |-> data.links,
                  current_url |-> target_url,
                  messages |-> Append(ss.messages, NavigationNotice(target_url))],
          ret |-> "True"]

\* the Process PDF branch without the reset of found_links
process_pdf_keeps_links(ss, data) ==
    [context_text |-> data.text,
     found_files |-> <<>>,
     found_links |-> ss.found_links,
     current_url |-> PdfUpload,
     messages |-> <<>>]

\* the else branch of the Process PDF handler
process_pdf(ss, data) ==
    [context_text |-> data.text,
     found_files |-> <<>>,
     found_links |-> <<>>,
     current_url |-> PdfUpload,
     messages |-> <<>>]

\* the gate left out: the chat section is reached on every run
ChatOpen_always(ss) == TRUE

\* the chat section is reached: the script did not st.stop()
ChatOpen(ss) == ss.context_text.len # 0

-----------------------------------------------------------------------------
(* Prompt composition *)

\* one line of the table: f"- {link['text']}: {link['url']}\n"
LinkLine(link) == <<"-", " ">> \o link.text \o <<":", " ">> \o link.url \o <<"\n">>

\* links_context with the slice left out
links_context_uncapped(ss) ==
    [i \in 1..Len(ss.found_links) |-> LinkLine(ss.found_links[i])]

\* the lines of links_context after its heading, one per link of
\* found_links[:50]; <<>> when found_links is empty and links_context stays ""
links_context(ss) ==
    IF ss.found_links = <<>> THEN <<>>
    ELSE LET top == SubSeq(ss.found_links, 1, IF Len(ss.found_links) <= LinkCap
                                               THEN Len(ss.found_links) ELSE LinkCap)
         IN  [i \in 1..Len(top) |-> LinkLine(top[i])]

\* the f-string: fixed instructions, then the text, then the link lines
system_prompt(ss) ==
    [instructions |-> "research assistant",
     text |-> ss.context_text,
     links |-> links_context(ss)]

\* the system turn put after the history
ApiMessages_system_last(ss) == ss.messages \o <<Turn("system", system_prompt(ss))>>

\* [{'role': 'system', ...}] + st.session_state.messages
ApiMessages(ss) == <<Turn("system", system_prompt(ss))>> \o ss.messages

-----------------------------------------------------------------------------
(* Navigation command check *)

\* the condition with only the spaced form of the marker
navigation_check_spaced_only(reply) == Contains(reply, MarkerSpaced)

\* the condition that opens the navigation branch
navigation_check(reply) == Contains(reply, MarkerSpaced) \/ Contains(reply, MarkerTight)

NextNonSpace(s, j) == Min({k \in j..(Len(s) + 1) : k = Len(s) + 1 \/ s[k] \notin WhiteSpace})

NextQuote(s, j) == Min({k \in j..(Len(s) + 1) : k = Len(s) + 1 \/ s[k] = "\""})

\* group 1 of the pattern "url":\s*"([^"]+)" matched at position i, or {}
GroupAt(s, i) ==
    IF i + 5 > Len(s) \/ SubSeq(s, i, i + 5) # UrlKey THEN {}
    ELSE LET j == NextNonSpace(s, i + 6)
             k == NextQuote(s, j + 1)
         IN  IF j <= Len(s) /\ s[j] = "\"" /\ k <= Len(s) /\ k > j + 1
             THEN {SubSeq(s, j + 1, k - 1)}
             ELSE {}

\* the search with the pattern "url":\s*"([^"]*)", which accepts an empty value
url_match_any(reply) ==
    LET AnyAt(i) ==
            IF i + 5 > Len(reply) \/ SubSeq(reply, i, i + 5) # UrlKey THEN {}
            ELSE LET j == NextNonSpace(reply, i + 6)
                     k == NextQuote(reply, j + 1)
                 IN  IF j <= Len(reply) /\ reply[j] = "\"" /\ k <= Len(reply)
                     THEN {SubSeq(reply, j + 1, k - 1)}
                     ELSE {}
        hits == {i \in 1..Len(reply) : AnyAt(i) # {}}
    IN  IF hits = {} THEN {} ELSE AnyAt(Min(hits))

\* the search returning the rightmost match
url_match_last(reply) ==
    LET hits == {i \in 1..Len(reply) : GroupAt(reply, i) # {}}
    IN  IF hits = {} THEN {} ELSE GroupAt(reply, CHOOSE i \in hits : \A j \in hits : j <= i)

\* re.search: the leftmost match; {} is None
url_match(reply) ==
    LET hits == {i \in 1..Len(reply) : GroupAt(reply, i) # {}}
    IN  IF hits = {} THEN {} ELSE GroupAt(reply, Min(hits))

\* the final append with its condition inverted
record_reply_inverted(ss, reply) ==
    IF Contains(reply, MarkerSpaced)
    THEN [ss EXCEPT !.messages = Append(@, Turn("assistant", reply))]
    ELSE ss

\* the final two lines of the chat handler
record_reply(ss, reply) ==
    IF ~Contains(reply, MarkerSpaced)
    THEN [ss EXCEPT !.messages = Append(@, Turn("assistant", reply))]
    ELSE ss

\* a successful load: the source and the three values it produced
Loaded(source, data) ==
    [url |-> source, text |-> data.text, links |-> data.links, files |-> data.files]

-----------------------------------------------------------------------------
(* The chat handler after ollama.chat has returned *)

\* the handler with a failed fetch tried a second time
handle_reply_retry(ss, reply, response) ==
    IF navigation_check(reply) /\ url_match(reply) # {}
    THEN LET target_url == CHOOSE u \in url_match(reply) : TRUE
             data == fetch_webpage_data(target_url, response)
             r == load_new_url(ss, target_url, data)
         IN  IF r.ret = "True"
             THEN [ss |-> r.ss, outcome |-> "nav_ok",
                   ui |-> [kind |-> "markdown", line |-> 222],
                   requests |-> <<target_url>>,
                   loaded |-> {Loaded(target_url, data)}]
             ELSE [ss |-> record_reply(ss, reply), outcome |-> "nav_failed",
                   ui |-> [kind |-> "error", line |-> 120],
                   requests |-> <<target_url, target_url>>, loaded |-> {}]
    ELSE IF navigation_check(reply)
    THEN [ss |-> record_reply(ss, reply), outcome |-> "malformed",
          ui |-> [kind |-> "error", line |-> 228],
          requests |-> <<>>, loaded |-> {}]
    ELSE [ss |-> record_reply(ss, reply), outcome |-> "answered",
          ui |-> [kind |-> "markdown", line |-> 233],
          requests |-> <<>>, loaded |-> {}]

\* the handler with st.rerun() caught by the except clause, so that the
\* final append is reached after a successful load too
handle_reply_no_rerun(ss, reply, response) ==
    IF navigation_check(reply) /\ url_match(reply) # {}
    THEN LET target_url == CHOOSE u \in url_match(reply) : TRUE
             data == fetch_webpage_data(target_url, response)
             r == load_new_url(ss, target_url, data)
         IN  IF r.ret = "True"
             THEN [ss |-> record_reply(r.ss, reply), outcome |-> "nav_ok",
                   ui |-> [kind |-> "error", line |-> 230],
                   requests |-> <<target_url>>,
                   loaded |-> {Loaded(target_url, data)}]
             ELSE [ss |-> record_reply(ss, reply),
                   outcome |-> IF r.ret = "False" THEN "nav_failed" ELSE "nav_raised",
                   ui |-> [kind |-> "error", line |-> IF r.ret = "False" THEN 120 ELSE 230],
                   requests |-> <<target_url>>, loaded |-> {}]
    ELSE IF navigation_check(reply)
    THEN [ss |-> record_reply(ss, reply), outcome |-> "malformed",
          ui |-> [kind |-> "error", line |-> 228],
          requests |-> <<>>, loaded |-> {}]
    ELSE [ss |-> record_reply(ss, reply), outcome |-> "answered",
          ui |-> [kind |-> "markdown", line |-> 233],
          requests |-> <<>>, loaded |-> {}]

\* from the navigation check to the end of the script run.  response is what
\* the fetch of the extracted target produces; it is not read when no fetch
\* is made.  A successful load ends the run in st.rerun(), whose exception
\* is no Exception and so passes the except clause: the final append is
\* reached on every other path
handle_reply(ss, reply, response) ==
    IF navigation_check(reply)
    THEN LET m == url_match(reply)
         IN  IF m # {}
             THEN LET target_url == CHOOSE u \in m : TRUE
                      data == fetch_webpage_data(target_url, response)
                      r == load_new_url(ss, target_url, data)
                  IN  CASE r.ret = "True" ->
                             [ss |-> r.ss, outcome |-> "nav_ok",
                              ui |-> [kind |-> "markdown", line |-> 222],
                              requests |-> <<target_url>>,
                              loaded |-> {Loaded(target_url, data)}]
                        [] r.ret = "False" ->
                             [ss |-> record_reply(ss, reply), outcome |-> "nav_failed",
                              ui |-> [kind |-> "error", line |-> 120],
                              requests |-> <<target_url>>, loaded |-> {}]
                        [] r.ret = "KeyError" ->
                             [ss |-> record_reply(ss, reply), outcome |-> "nav_raised",
                              ui |-> [kind |-> "error", line |-> 230],
                              requests |-> <<target_url>>, loaded |-> {}]
             ELSE [ss |-> record_reply(ss, reply), outcome |-> "malformed",
                   ui |-> [kind |-> "error", line |-> 228],
                   requests |-> <<>>, loaded |-> {}]
    ELSE [ss |-> record_reply(ss, reply), outcome |-> "answered",
          ui |-> [kind |-> "markdown", line |-> 233],
          requests |-> <<>>, loaded |-> {}]

-----------------------------------------------------------------------------
(* Inputs: what the operator enters, what the web, the uploaded files and   *)
(* the model return                                                         *)

\* http://a/
UrlA ==
    <<"h","t","t","p",":","/","/","a","/">>

\* http://b/
UrlB ==
    <<"h","t","t","p",":","/","/","b","/">>

\* http://e/
UrlE ==
    <<"h","t","t","p",":","/","/","e","/">>

\* x.PDF
HrefFile ==
    <<"x",".","P","D","F">>

\* #top
HrefFragment ==
    <<"#","t","o","p">>

\* javascript:void(0)
HrefScript ==
    <<"j","a","v","a","s","c","r","i","p","t",":","v","o","i","d","(","0",")">>

\* Docs
LabelDocs ==
    <<"D","o","c","s">>

\* go to Docs
PromptGo ==
    <<"g","o"," ","t","o"," ","D","o","c","s">>

\* Read timed out
ErrTimeout ==
    <<"R","e","a","d"," ","t","i","m","e","d"," ","o","u","t">>

\* No /Root object
ErrPdf ==
    <<"N","o"," ","/","R","o","o","t"," ","o","b","j","e","c","t">>

\* The answer is 42.
ReplyText ==
    <<"T","h","e"," ","a","n","s","w","e","r"," ","i","s"," ","4","2",".">>

\* { "action": "navigate", "url": "http://b/" }
ReplyNavSpaced ==
    <<"{"," ","\"","a","c","t","i","o","n","\"",":"," ","\"","n","a","v","i","g","a","t",
      "e","\"",","," ","\"","u","r","l","\"",":"," ","\"","h","t","t","p",":","/","/","b",
      "/","\""," ","}">>

\* {"action": "navigate", "url": "http://b/"}
ReplyNavTight ==
    <<"{","\"","a","c","t","i","o","n","\"",":"," ","\"","n","a","v","i","g","a","t","e",
      "\"",","," ","\"","u","r","l","\"",":"," ","\"","h","t","t","p",":","/","/","b","/",
      "\"","}">>

\* Sure. { "action": "navigate" }
ReplyBadSpaced ==
    <<"S","u","r","e","."," ","{"," ","\"","a","c","t","i","o","n","\"",":"," ","\"","n",
      "a","v","i","g","a","t","e","\""," ","}">>

\* {"action": "navigate", "url": ""}
ReplyBadTight ==
    <<"{","\"","a","c","t","i","o","n","\"",":"," ","\"","n","a","v","i","g","a","t","e",
      "\"",","," ","\"","u","r","l","\"",":"," ","\"","\"","}">>

\* Per "url": "http://a/" I go { "action": "navigate" }
ReplyUrlFirst ==
    <<"P","e","r"," ","\"","u","r","l","\"",":"," ","\"","h","t","t","p",":","/","/","a",
      "/","\""," ","I"," ","g","o"," ","{"," ","\"","a","c","t","i","o","n","\"",":"," ",
      "\"","n","a","v","i","g","a","t","e","\""," ","}">>

\* {"action": "navigate", "url": "", "url":"http://b/", "url": "http://a/"}
ReplyTwoUrls ==
    <<"{","\"","a","c","t","i","o","n","\"",":"," ","\"","n","a","v","i","g","a","t","e",
      "\"",","," ","\"","u","r","l","\"",":"," ","\"","\"",","," ","\"","u","r","l","\"",
      ":","\"","h","t","t","p",":","/","/","b","/","\"",","," ","\"","u","r","l","\"",":",
      " ","\"","h","t","t","p",":","/","/","a","/","\"","}">>

\* See "url": "http://b/"
ReplyUrlNoMarker ==
    <<"S","e","e"," ","\"","u","r","l","\"",":"," ","\"","h","t","t","p",":","/","/","b",
      "/","\"">>

\* a page longer than the budget: a link, a file in upper case, the same
\* link again, and three anchors the loop skips
PageA ==
    [ok |-> TRUE, text |-> [src |-> "a", len |-> CharBudget + 1],
     anchors |-> << [text |-> LabelDocs, href |-> UrlB],
                    [text |-> <<>>, href |-> HrefFile],
                    [text |-> LabelDocs, href |-> HrefFragment],
                    [text |-> LabelDocs, href |-> UrlB],
                    [text |-> LabelDocs, href |-> HrefScript],
                    [text |-> LabelDocs, href |-> <<>>] >>]

PageB == [ok |-> TRUE, text |-> [src |-> "b", len |-> 7], anchors |-> <<>>]

\* a page with no text outside the stripped regions
PageE ==
    [ok |-> TRUE, text |-> EmptyText,
     anchors |-> << [text |-> LabelDocs, href |-> UrlA] >>]

\* http://m/
UrlM ==
    <<"h","t","t","p",":","/","/","m","/">>

Digit == <<"0","1","2","3","4","5","6","7","8","9">>

\* a page of exactly the budget, with one more link than the table takes,
\* each with its own target, and a file among them
PageM ==
    [ok |-> TRUE, text |-> [src |-> "m", len |-> CharBudget],
     anchors |-> [i \in 1..(LinkCap + 2) |->
                    IF i = 2 THEN [text |-> LabelDocs, href |-> HrefFile]
                    ELSE [text |-> <<"L">>,
                          href |-> UrlB \o <<Digit[(i \div 10) + 1], Digit[(i % 10) + 1]>>]]]

\* an exception whose str() is a message, and one whose str() is ""
Failures(msg) == {[ok |-> FALSE, err |-> msg], [ok |-> FALSE, err |-> <<>>]}

Responses(url) ==
    Failures(ErrTimeout) \cup
        (CASE url = UrlA -> {PageA} [] url = UrlB -> {PageB} [] url = UrlE -> {PageE}
           [] url = UrlM -> {PageM} [] OTHER -> {})

\* the text input of the sidebar, empty included
UrlInputs == {<<>>, UrlA, UrlB, UrlE}

\* {n} is a page whose extract_text() has n characters, {} one that gives None
Uploads ==
    {[ok |-> TRUE, name |-> "p1", pages |-> <<{3}, {}>>],
     [ok |-> TRUE, name |-> "p0", pages |-> <<>>],
     [ok |-> TRUE, name |-> "p2", pages |-> <<{CharBudget}>>]} \cup Failures(ErrPdf)

Prompts == {<<>>, PromptGo}

Completions ==
    {ReplyText, ReplyNavSpaced, ReplyNavTight, ReplyBadSpaced, ReplyBadTight,
     ReplyUrlFirst, ReplyTwoUrls, ReplyUrlNoMarker}

-----------------------------------------------------------------------------
(* State machine *)

Init ==
    /\ session_state = InitialSession
    /\ pc = "idle"
    /\ api_messages = <<>>
    /\ ai_reply = <<>>
    /\ http_requests = <<>>
    /\ ui = [kind |-> "info", line |-> 162]
    /\ outcome = "start"
    /\ prior = InitialSession
    /\ last_load = {}
    /\ extracted = {}
    /\ engine_calls = 0

\* "Load Website" pressed with one of urls in the text input
LoadWebsiteFrom(urls) ==
    /\ pc = "idle"
    /\ Len(session_state.messages) < MaxTurns
    /\ \E url \in urls :
         /\ url # <<>>
         /\ \E response \in Responses(url) :
              \E data \in {fetch_webpage_data(url, response)} :
              \E r \in {load_new_url(session_state, url, data)} :
                  /\ session_state' = r.ss
                  /\ last_load' = IF r.ret = "True" THEN {Loaded(url, data)} ELSE last_load
                  /\ extracted' = IF r.ret = "True"
                                  THEN {[text |-> response.text, anchors |-> response.anchors]}
                                  ELSE extracted
                  /\ outcome' = CASE r.ret = "True" -> "load_url_ok"
                                  [] r.ret = "False" -> "load_url_failed"
                                  [] r.ret = "KeyError" -> "load_url_raised"
                  /\ ui' = CASE r.ret = "True" -> [kind |-> "success", line |-> 135]
                             [] r.ret = "False" -> [kind |-> "error", line |-> 120]
                             [] r.ret = "KeyError" -> [kind |-> "exception", line |-> 123]
                  /\ http_requests' = <<url>>
    /\ prior' = session_state
    /\ api_messages' = <<>>
    /\ ai_reply' = <<>>
    /\ engine_calls' = 0
    /\ UNCHANGED pc

LoadWebsite == LoadWebsiteFrom(UrlInputs)

\* "Process PDF" pressed with a file in the uploader
ProcessPDF ==
    /\ pc = "idle"
    /\ \E pdf_file \in Uploads :
         \E data \in {extract_pdf_text(pdf_file)} :
             IF Truthy(data.error)
             THEN /\ UNCHANGED <<session_state, last_load, extracted>>
                  /\ outcome' = "pdf_failed"
                  /\ ui' = [kind |-> "error", line |-> 143]
             ELSE IF "text" \notin DOMAIN data
             THEN /\ UNCHANGED <<session_state, last_load, extracted>>
                  /\ outcome' = "pdf_raised"
                  /\ ui' = [kind |-> "exception", line |-> 145]
             ELSE /\ session_state' = process_pdf(session_state, data)
                  /\ last_load' = {[url |-> PdfUpload, text |-> data.text,
                                    links |-> <<>>, files |-> <<>>]}
                  /\ extracted' = {[text |-> pdf_text(pdf_file), anchors |-> <<>>]}
                  /\ outcome' = "pdf_ok"
                  /\ ui' = [kind |-> "success", line |-> 150]
    /\ prior' = session_state
    /\ http_requests' = <<>>
    /\ api_messages' = <<>>
    /\ ai_reply' = <<>>
    /\ engine_calls' = 0
    /\ UNCHANGED pc

\* a prompt is entered in st.chat_input: the run up to the ollama.chat call
ChatInput ==
    /\ pc = "idle"
    /\ ChatOpen(session_state)
    /\ Len(session_state.messages) + 2 <= MaxTurns
    /\ \E prompt \in Prompts :
         /\ prompt # <<>>
         /\ session_state' =
                [session_state EXCEPT !.messages = Append(@, Turn("user", prompt))]
    /\ api_messages' = ApiMessages(session_state')
    /\ pc' = "awaiting"
    /\ prior' = session_state
    /\ http_requests' = <<>>
    /\ outcome' = "submitted"
    /\ ui' = [kind |-> "spinner", line |-> 198]
    /\ ai_reply' = <<>>
    /\ engine_calls' = 1
    /\ UNCHANGED <<last_load, extracted>>

\* a failed call that takes the user turn back out of the history
OllamaRaise_rollback ==
    /\ pc = "awaiting"
    /\ pc' = "idle"
    /\ outcome' = "engine_error"
    /\ ui' = [kind |-> "exception", line |-> 203]
    /\ session_state' = [session_state EXCEPT !.messages = prior.messages]
    /\ UNCHANGED <<api_messages, ai_reply, http_requests, prior, last_load, extracted,
                   engine_calls>>

\* a failed call after which the session still counts the call as running
OllamaRaise_stuck ==
    /\ pc = "awaiting"
    /\ outcome # "engine_error"
    /\ outcome' = "engine_error"
    /\ ui' = [kind |-> "exception", line |-> 203]
    /\ UNCHANGED <<session_state, pc, api_messages, ai_reply, http_requests, prior,
                   last_load, extracted, engine_calls>>

\* ollama.chat raises: nothing catches it and the script run ends
OllamaRaise ==
    /\ pc = "awaiting"
    /\ pc' = "idle"
    /\ outcome' = "engine_error"
    /\ ui' = [kind |-> "exception", line |-> 203]
    /\ UNCHANGED <<session_state, api_messages, ai_reply, http_requests, prior, last_load,
                   extracted, engine_calls>>

\* the response a reply's navigation would fetch; one placeholder when the
\* reply leads to no fetch
ResponsesFor(reply) ==
    IF navigation_check(reply) /\ url_match(reply) # {}
    THEN Responses(CHOOSE u \in url_match(reply) : TRUE)
    ELSE {[ok |-> FALSE, err |-> <<>>]}

\* ollama.chat returns one of replies: the rest of the script run
OllamaReturnFrom(replies) ==
    /\ pc = "awaiting"
    /\ \E reply \in replies : \E response \in ResponsesFor(reply) :
         \E h \in {handle_reply(session_state, reply, response)} :
             /\ ai_reply' = reply
             /\ session_state' = h.ss
             /\ outcome' = h.outcome
             /\ ui' = h.ui
             /\ http_requests' = h.requests
             /\ last_load' = IF h.loaded # {} THEN h.loaded ELSE last_load
             /\ extracted' = IF h.loaded # {}
                             THEN {[text |-> response.text, anchors |-> response.anchors]}
                             ELSE extracted
    /\ pc' = "idle"
    /\ UNCHANGED <<api_messages, prior, engine_calls>>

OllamaReturn == OllamaReturnFrom(Completions)

Next == LoadWebsite \/ ProcessPDF \/ ChatInput \/ OllamaRaise \/ OllamaReturn

Spec == Init /\ [][Next]_vars

\* the same session on a site whose pages carry long link lists
LoadWebsiteLong == LoadWebsiteFrom({UrlM, UrlB})

OllamaReturnLong == OllamaReturnFrom({ReplyText, ReplyNavSpaced})

NextLong == LoadWebsiteLong \/ ProcessPDF \/ ChatInput \/ OllamaRaise \/ OllamaReturnLong

SpecLong == Init /\ [][NextLong]_vars

-----------------------------------------------------------------------------
(* Properties *)

messages == session_state.messages

Last(s) == s[Len(s)]

\* the history a submission of some prompt leaves before the reply is handled
AfterUserTurn(history) ==
    \E prompt \in Prompts \ {<<>>} : history = Append(prior.messages, Turn("user", prompt))

\* no position of the reply gives a non-empty quoted value after "url":
NoUrlValue(reply) == \A i \in 1..Len(reply) : GroupAt(reply, i) = {}

\* C1: once a script run has handled a completion that contains either form
\* of the navigation marker, the last stored turn is not that completion as
\* an assistant turn, whatever the navigation came to.
C1_RawDirectiveNeverStored ==
    (pc = "idle" /\ navigation_check(ai_reply))
        => (messages = <<>> \/ Last(messages) # Turn("assistant", ai_reply))

\* C2: after a load that failed (manual URL load, PDF extraction, or the
\* fetch of a navigation), the four resource fields are what they were
\* before the attempt.
C2_FailedLoadKeepsResource ==
    outcome \in {"load_url_failed", "load_url_raised", "pdf_failed", "pdf_raised",
                 "nav_failed", "nav_raised"}
        => Resource(session_state) = Resource(prior)

C2_Witness ==
    /\ outcome = "nav_failed"
    /\ session_state.current_url = UrlA
    /\ session_state.found_links # <<>>

\* C3: after every successful manual load (Load Website or Process PDF) the
\* stored history is empty.
C3_ManualLoadClearsHistory ==
    outcome \in {"load_url_ok", "pdf_ok"} => messages = <<>>

\* C4: whenever the session treats itself as having no source (context_text
\* is empty and the chat is gated off), the stored history is empty.
C4_HistoryOnlyWithSource ==
    ~ChatOpen(session_state) => messages = <<>>

\* C5: when ollama.chat fails, the history is the one before the submission
\* followed by the user turn, with no assistant turn after it, the resource
\* is unchanged, and the chat accepts a new submission.
C5_EngineFailureKeepsUserTurn ==
    outcome = "engine_error"
        => /\ AfterUserTurn(messages)
           /\ Resource(session_state) = Resource(prior)
           /\ pc = "idle"
           /\ ChatOpen(session_state)

C5_Witness ==
    /\ outcome = "engine_error"
    /\ Len(prior.messages) >= 1

\* C6: after a successful navigation the resource is the one fetched from
\* the extracted target, the history before the navigation and the user turn
\* are kept in order, one note announcing the target is the last turn, and
\* every prompt composed afterwards carries the stored text.
C6_NavigationKeepsHistory ==
    /\ outcome = "nav_ok"
         => LET target_url == CHOOSE u \in url_match(ai_reply) : TRUE
            IN  /\ Len(messages) >= 2
                /\ AfterUserTurn(SubSeq(messages, 1, Len(messages) - 1))
                /\ Last(messages) = NavigationNotice(target_url)
                /\ session_state.current_url = target_url
                /\ http_requests = <<target_url>>
                /\ \E l \in last_load :
                     /\ l.url = target_url
                     /\ session_state.context_text = l.text
                     /\ session_state.found_links = l.links
                     /\ session_state.found_files = l.files
    /\ pc = "awaiting" => api_messages[1].content.text = session_state.context_text

C6_Witness ==
    /\ outcome = "nav_ok"
    /\ Len(prior.messages) >= 1
    /\ prior.current_url = UrlA
    /\ session_state.current_url = UrlB
    /\ session_state.context_text = PageB.text

\* C7: when the completion has the marker but no url value, an error is
\* shown, no fetch is made, the resource is the prior one, and the chat
\* accepts the next submission.
C7_MalformedDirectiveReported ==
    (pc = "idle" /\ navigation_check(ai_reply) /\ NoUrlValue(ai_reply))
        => /\ outcome = "malformed"
           /\ ui.kind = "error"
           /\ http_requests = <<>>
           /\ Resource(session_state) = Resource(prior)
           /\ ChatOpen(session_state)

C7_Witness ==
    /\ outcome = "malformed"
    /\ ai_reply = ReplyBadTight
    /\ session_state.found_links # <<>>

\* C8: when the completion has no marker, the history is the one before the
\* submission, then the user turn, then one assistant turn holding the
\* completion unchanged; the resource is unchanged and the run has ended.
C8_PlainReplyAppended ==
    (pc = "idle" /\ ai_reply # <<>> /\ ~navigation_check(ai_reply))
        => /\ outcome = "answered"
           /\ Len(messages) >= 2
           /\ AfterUserTurn(SubSeq(messages, 1, Len(messages) - 1))
           /\ Last(messages) = Turn("assistant", ai_reply)
           /\ Resource(session_state) = Resource(prior)

C8_Witness ==
    /\ outcome = "answered"
    /\ Len(prior.messages) >= 1
    /\ Last(messages).content = ReplyText

\* C9: the turns sent to ollama.chat are one system turn followed by the
\* stored history in order, with no other system turn, and the stored
\* history holds user and assistant turns only.
C9_OneSystemTurn ==
    /\ \A i \in 1..Len(messages) : messages[i].role \in {"user", "assistant"}
    /\ pc = "awaiting"
         => /\ Len(api_messages) = Len(messages) + 1
            /\ api_messages[1].role = "system"
            /\ \A i \in 2..Len(api_messages) : api_messages[i].role # "system"
            /\ Tail(api_messages) = messages

C9_Witness ==
    /\ pc = "awaiting"
    /\ Len(messages) >= 3

\* C10: the four resource fields are the values of the most recent
\* successful load (the start-up values before any), and after a PDF load
\* links and files are both empty.
C10_ResourceFromOneLoad ==
    /\ last_load = {} => Resource(session_state) = Resource(InitialSession)
    /\ \A l \in last_load :
         /\ session_state.current_url = l.url
         /\ session_state.context_text = l.text
         /\ session_state.found_links = l.links
         /\ session_state.found_files = l.files
    /\ outcome = "pdf_ok"
         => /\ session_state.found_links = <<>>
            /\ session_state.found_files = <<>>
            /\ session_state.current_url = PdfUpload

C10_Witness ==
    /\ outcome = "pdf_ok"
    /\ prior.found_links # <<>>
    /\ prior.found_files # <<>>

ChatOutcomes == {"engine_error", "answered", "nav_ok", "nav_failed", "nav_raised", "malformed"}

\* C11: a submission makes one ollama.chat call and at most one fetch; after
\* a successful navigation the run has ended without another call; while a
\* call is running exactly one user turn has been added and no fetch made.
C11_OneCallOneFetch ==
    /\ outcome \in ChatOutcomes \cup {"submitted"} => engine_calls = 1
    /\ outcome \in ChatOutcomes => Len(http_requests) <= 1
    /\ outcome = "nav_ok" => pc = "idle" /\ Len(http_requests) = 1
    /\ pc = "awaiting"
         => /\ outcome = "submitted"
            /\ AfterUserTurn(messages)
            /\ http_requests = <<>>
    /\ pc = "idle" /\ outcome \in ChatOutcomes
         => Len(SelectSeq(messages, LAMBDA t : t.role = "user"))
              = Len(SelectSeq(prior.messages, LAMBDA t : t.role = "user")) + 1

C11_Witness ==
    /\ outcome = "nav_failed"
    /\ Len(http_requests) = 1
    /\ Len(prior.messages) >= 1

\* C12: the link table of the system turn has min(n, 50) lines, the lines
\* of the first min(n, 50) of the n stored links in their order, and is
\* absent when n = 0.
C12_LinkTableCapped ==
    pc = "awaiting"
        => LET table == api_messages[1].content.links
               n == Len(session_state.found_links)
           IN  /\ Len(table) = IF n <= 50 THEN n ELSE 50
               /\ \A i \in 1..Len(table) : table[i] = LinkLine(session_state.found_links[i])
               /\ n = 0 => table = <<>>

C12_Witness ==
    /\ pc = "awaiting"
    /\ Len(session_state.found_links) = 51
    /\ Len(api_messages[1].content.links) = 50

\* C13: the stored text has at most 100,000 characters, and it is the prefix
\* of the text the last successful load extracted, of that text's length or
\* of 100,000 characters, whichever is less.
C13_TextWithinBudget ==
    /\ session_state.context_text.len <= 100000
    /\ \A e \in extracted :
         /\ session_state.context_text.len
              = IF e.text.len <= 100000 THEN e.text.len ELSE 100000
         /\ session_state.context_text.len > 0
              => session_state.context_text.src = e.text.src

C13_Witness ==
    /\ outcome = "nav_ok"
    /\ \E e \in extracted : e.text.len > 100000
    /\ session_state.context_text.len = 100000

\* an anchor the claim lets the loop leave out: empty target, fragment, script
Skipped(href) == href = <<>> \/ href[1] = "#" \/ StartsWith(href, ScriptScheme)

\* the resolved target ends, whatever its case, in one of the six extensions
IsFileUrl(full_url) ==
    \E ext \in { <<".","p","d","f">>, <<".","t","x","t">>, <<".","c","s","v">>,
                  <<".","m","d">>, <<".","j","s","o","n">>, <<".","d","o","c","x">> } :
        EndsWith(Lower(full_url), ext)

\* the anchors that are not skipped, resolved against url, in source order
Entries(url, anchors) ==
    LET kept == SelectSeq(anchors, LAMBDA a : ~Skipped(a.href))
    IN  [i \in 1..Len(kept) |->
            [text |-> IF kept[i].text = <<>> THEN NoText ELSE kept[i].text,
             url |-> urljoin(url, kept[i].href)]]

\* C14: after a page load, found_files is the sequence of the anchors that
\* are not skipped and whose resolved target is a file, found_links the
\* sequence of the others, each in source order with repeats kept: every
\* such anchor is in exactly one list and none is dropped.
C14_AnchorsPartitioned ==
    \A e \in extracted :
        e.anchors # <<>>
            => LET entries == Entries(session_state.current_url, e.anchors)
               IN  /\ session_state.found_files
                        = SelectSeq(entries, LAMBDA d : IsFileUrl(d.url))
                   /\ session_state.found_links
                        = SelectSeq(entries, LAMBDA d : ~IsFileUrl(d.url))

C14_Witness ==
    /\ outcome = "load_url_ok"
    /\ session_state.current_url = UrlA
    /\ Len(session_state.found_links) = 2
    /\ session_state.found_links[1] = session_state.found_links[2]
    /\ Len(session_state.found_files) = 1
    /\ session_state.found_files[1].url = UrlA \o HrefFile

\* C15: every script run that has ended, whatever its outcome, leaves the
\* session between runs, where a manual load is accepted and, with a text
\* loaded, a submission is accepted; a running call can always end; no
\* reachable state is without a next operation.
C15_AlwaysStable ==
    /\ outcome # "submitted" => pc = "idle"
    /\ pc = "idle" => ENABLED ProcessPDF
    /\ (pc = "idle" /\ Len(messages) < MaxTurns) => ENABLED LoadWebsite
    /\ (pc = "idle" /\ session_state.context_text.len # 0 /\ Len(messages) + 2 <= MaxTurns)
         => ENABLED ChatInput
    /\ pc = "awaiting" => (ENABLED OllamaReturn /\ ENABLED OllamaRaise)
    /\ ENABLED Next

C15_Witness ==
    /\ outcome = "nav_raised"
    /\ pc = "idle"
    /\ session_state.context_text.len # 0

NoSource == session_state.context_text.len = 0

UserTurns(history) == Len(SelectSeq(history, LAMBDA t : t.role = "user"))

ManualOutcomes ==
    {"load_url_ok", "load_url_failed", "load_url_raised", "pdf_ok", "pdf_failed", "pdf_raised"}

\* C17: from a state with no source, no step starts an ollama.chat call or
\* adds a user turn, and a step that changes the session state is a
\* successful manual load.
C17_NoSourceNoSubmission ==
    [][NoSource
         => /\ pc' = "idle"
            /\ engine_calls' = 0
            /\ api_messages' = <<>>
            /\ UserTurns(session_state'.messages) <= UserTurns(messages)
            /\ outcome' \in ManualOutcomes
            /\ session_state' # session_state => outcome' \in {"load_url_ok", "pdf_ok"}]_vars

C17_Witness ==
    /\ NoSource
    /\ last_load = {}
    /\ outcome = "load_url_failed"

IsPrefix(s, t) == Len(s) <= Len(t) /\ SubSeq(t, 1, Len(s)) = s

\* C18: across every step of a submission, a completion or a navigation the
\* history before the step is a prefix of the history after it.
C18_HistoryAppendOnly ==
    [][outcome' \notin ManualOutcomes => IsPrefix(messages, session_state'.messages)]_vars

C18_Witness ==
    /\ outcome = "nav_ok"
    /\ Len(messages) >= 3
    /\ IsPrefix(prior.messages, messages)

\* the positions of the "url": keys of a reply
UrlKeysAt(reply) ==
    {i \in 1..Len(reply) : i + 5 <= Len(reply) /\ SubSeq(reply, i, i + 5) = UrlKey}

\* the non-empty quoted values that follow a "url": key after optional
\* white space, each with the position of its key
UrlValues(reply) ==
    UNION { UNION { { [at |-> i, value |-> SubSeq(reply, j + 1, k - 1)] :
                        k \in {k \in (j + 2)..Len(reply) :
                                 /\ reply[k] = "\""
                                 /\ \A x \in (j + 1)..(k - 1) : reply[x] # "\""} } :
                    j \in {j \in (i + 6)..Len(reply) :
                             /\ reply[j] = "\""
                             /\ \A x \in (i + 6)..(j - 1) : reply[x] \in WhiteSpace} } :
            i \in UrlKeysAt(reply) }

\* the value whose key comes first in the reply
FirstUrlValue(reply) ==
    (CHOOSE v \in UrlValues(reply) : \A w \in UrlValues(reply) : v.at <= w.at).value

HasMarker(reply) ==
    \/ Contains(reply, MarkerTight)
    \/ Contains(reply, MarkerSpaced)

NavOutcomes == {"nav_ok", "nav_failed", "nav_raised"}

\* C16: a handled completion falls in exactly one of three cases: without
\* either marker it is answered and nothing is fetched; with a marker and a
\* non-empty quoted url value one such value is fetched; with a marker and no
\* such value the malformed-directive error is shown.  No case ends in an
\* uncaught exception.
C16_ThreeOutcomes ==
    (pc = "idle" /\ ai_reply # <<>>)
        => /\ ~HasMarker(ai_reply)
                => outcome = "answered" /\ http_requests = <<>>
           /\ (HasMarker(ai_reply) /\ UrlValues(ai_reply) # {})
                => /\ outcome \in NavOutcomes
                   /\ \E v \in UrlValues(ai_reply) : http_requests = <<v.value>>
           /\ (HasMarker(ai_reply) /\ UrlValues(ai_reply) = {})
                => outcome = "malformed" /\ http_requests = <<>> /\ ui.line = 228
           /\ ui.kind # "exception"

C16_Witness ==
    /\ outcome = "answered"
    /\ ai_reply = ReplyUrlNoMarker
    /\ UrlValues(ai_reply) # {}

\* C19: a handled submission leaves the history before it, then the user
\* turn, then nothing more, or the completion, or the navigation note, and
\* the note only when the navigation replaced the resource.
C19_OneUserOneAssistant ==
    outcome \in ChatOutcomes
        => \E prompt \in Prompts \ {<<>>} :
             LET base == Append(prior.messages, Turn("user", prompt))
             IN  \/ messages = base
                 \/ ai_reply # <<>> /\ messages = Append(base, Turn("assistant", ai_reply))
                 \/ /\ messages = Append(base, NavigationNotice(session_state.current_url))
                    /\ outcome = "nav_ok"
                    /\ http_requests = <<session_state.current_url>>
                    /\ \E l \in last_load : l.url = session_state.current_url

C19_Witness ==
    /\ outcome = "nav_failed"
    /\ Len(prior.messages) >= 1
    /\ Len(messages) = Len(prior.messages) + 1

\* C20: the URL a navigation fetches, and on success stores as current_url,
\* is the first non-empty quoted value after a "url": key of the completion.
C20_FirstUrlIsTarget ==
    outcome \in NavOutcomes
        => /\ UrlValues(ai_reply) # {}
           /\ http_requests = <<FirstUrlValue(ai_reply)>>
           /\ outcome = "nav_ok" => session_state.current_url = FirstUrlValue(ai_reply)

C20_Witness ==
    /\ outcome = "nav_ok"
    /\ ai_reply = ReplyUrlFirst
    /\ session_state.current_url = UrlA
    /\ prior.found_links = <<>>

====
